---------------------------- MODULE Spec2Model ----------------------------
(***************************************************************************)
(* decimally-core: the Decimal32 bit-field codec (decimal32.rs) and the    *)
(* provided methods of the Decimal trait (decimal.rs).                     *)
(*                                                                         *)
(* A u32 is modelled as the set of its set bit positions (a subset of      *)
(* 0..31), so that &, |, !, << and >> are exact on all 32 bits; TLC's own  *)
(* integers stop at 2^31 - 1.  u8/i8/i16 values are plain integers with    *)
(* the casts written out.                                                  *)
(***************************************************************************)
EXTENDS Integers

VARIABLES
    bits,   \* Decimal32.bits of the value under test
    prev,   \* bits before the last call (the fresh value, for a constructor)
    op,     \* name of the last call
    arg,    \* its argument ("none" when it takes none)
    res     \* its outcome: "Ok", "Some", an error of DecimalStorageError, or "Panic"

vars == <<bits, prev, op, arg, res>>

---------------------------------------------------------------------------
(* Bounds of the model.                                                    *)

\* Inputs are taken within Near of every edge of their domain.
Near == 1

---------------------------------------------------------------------------
(* Integer arithmetic of the source.                                       *)

\* 2^n for n in 0..30, as `1 << n`.
Pow2(n) ==
    <<1, 2, 4, 8, 16, 32, 64, 128, 256, 512, 1024, 2048, 4096, 8192, 16384,
      32768, 65536, 131072, 262144, 524288, 1048576, 2097152, 4194304,
      8388608, 16777216, 33554432, 67108864, 134217728, 268435456,
      536870912, 1073741824>>[n + 1]

\* The bits of a u8, widened to u32 (`u32::from`).
ToBits(n) == {i \in 0..7 : (n \div Pow2(i)) % 2 = 1}

\* The value of a bit set that leaves bit 31 clear.
RECURSIVE ToNat(_)
ToNat(s) == IF s = {} THEN 0
            ELSE LET i == CHOOSE j \in s : TRUE IN Pow2(i) + ToNat(s \ {i})

\* u32 operators
And32(a, b) == a \cap b
Or32(a, b) == a \cup b
Not32(a) == (0..31) \ a
Shl32(a, k) == {i + k : i \in {j \in a : j + k <= 31}}
Shr32(a, k) == {i - k : i \in {j \in a : j >= k}}

\* u8 operators
And8(a, b) == ToNat(ToBits(a) \cap ToBits(b))
Or8(a, b) == ToNat(ToBits(a) \cup ToBits(b))
Shl8(a, k) == (a * Pow2(k)) % 256
Shr8(a, k) == a \div Pow2(k)

\* `as u8` and `as i8` of a wider integer
AsU8(n) == n % 256
AsI8(n) == ((n + 128) % 256) - 128

---------------------------------------------------------------------------
(* Constants of decimal32.rs.                                              *)

COMB_EXP_LOOKUP ==
    <<0, 0, 0, 0, 0, 0, 0, 0, 1, 1, 1, 1, 1, 1, 1, 1,
      2, 2, 2, 2, 2, 2, 2, 2, 0, 0, 1, 1, 2, 2, 3, 3>>

COMB_DIG_LOOKUP ==
    <<0, 1, 2, 3, 4, 5, 6, 7, 0, 1, 2, 3, 4, 5, 6, 7,
      0, 1, 2, 3, 4, 5, 6, 7, 8, 9, 8, 9, 8, 9, 0, 1>>

SIGN_MASK == {31}             \* 0x8000_0000
COMBINATION_MASK == 26..30    \* 0x7c00_0000
EXPONENT_MASK == 20..25       \* 0x03f0_0000
COEFFECIENT_MASK == 0..19     \* 0x000f_ffff

EXPONENT_BIAS == 101
EXPONENT_MIN == -95
EXPONENT_MAX == 96
COEFFECIENT_MAX == 9999999
ZERO == {29, 30}              \* 0x6000_0000

\* The results of the fallible setters.
Ok(b) == [res |-> "Ok", bits |-> b]
Err(e, b) == [res |-> e, bits |-> b]

---------------------------------------------------------------------------
(* crate::dpd is not among the sources.  Section 4.1 of the specification  *)
(* describes it as the standard 8-case DPD-to-BCD decode of a 10-bit       *)
(* group, flattened to d2*100 + d1*10 + d0; the test at decimal32.rs:282   *)
(* fixes digits_from_dpd(0x3D0, 1) = 750, i.e. the low group is decoded    *)
(* whole whatever the digit count.                                         *)

Bit(n, i) == (n \div Pow2(i)) % 2

Declet(n) ==
    LET p == Bit(n, 9)  q == Bit(n, 8)  r == Bit(n, 7)
        s == Bit(n, 6)  t == Bit(n, 5)  u == Bit(n, 4)
        v == Bit(n, 3)
        w == Bit(n, 2)  x == Bit(n, 1)  y == Bit(n, 0)
        T(a, b, c) == 4 * a + 2 * b + c
        d == IF v = 0 THEN <<T(p, q, r), T(s, t, u), T(w, x, y)>>
             ELSE IF w = 0 /\ x = 0 THEN <<T(p, q, r), T(s, t, u), 8 + y>>
             ELSE IF w = 0 /\ x = 1 THEN <<T(p, q, r), 8 + u, T(s, t, y)>>
             ELSE IF w = 1 /\ x = 0 THEN <<8 + r, T(s, t, u), T(p, q, y)>>
             ELSE IF s = 0 /\ t = 0 THEN <<8 + r, 8 + u, T(p, q, y)>>
             ELSE IF s = 0 /\ t = 1 THEN <<8 + r, T(p, q, u), 8 + y>>
             ELSE IF s = 1 /\ t = 0 THEN <<T(p, q, r), 8 + u, 8 + y>>
             ELSE <<8 + r, 8 + u, 8 + y>>
    IN  d[1] * 100 + d[2] * 10 + d[3]

digits_from_dpd(packed, digits) == Declet(packed % 1024)

---------------------------------------------------------------------------
(* decimal32.rs                                                            *)

encode_combination_field(exp_msb, coeff_msd) ==
    IF coeff_msd <= 7
    THEN Or8(Shl8(exp_msb, 3), And8(coeff_msd, 7))
    ELSE Or8(Or8(24, Shl8(exp_msb, 1)), And8(coeff_msd, 1))

combination_field(b) == AsU8(ToNat(Shr32(And32(b, COMBINATION_MASK), 26)))

set_combination_field(b, comb) ==
    Or32(And32(b, Not32(COMBINATION_MASK)), Shl32(ToBits(comb), 26))

exponent_msb(b) == COMB_EXP_LOOKUP[combination_field(b) + 1]

exponent_cont(b) == AsU8(ToNat(Shr32(And32(b, EXPONENT_MASK), 20)))

set_exponent_cont(b, cont) ==
    Or32(And32(b, Not32(EXPONENT_MASK)), Shl32(ToBits(cont), 20))

coeffecient_msd(b) == COMB_DIG_LOOKUP[combination_field(b) + 1]

coeffecient_cont(b) == ToNat(And32(b, COEFFECIENT_MASK))

new == ZERO

sign(b) == Shr32(b, 31) # {}

\* set_sign without the clearing of the sign bit before it is set.
set_sign_no_clear(b, s) ==
    LET sgn == IF s THEN 1 ELSE 0
    IN  Or32(b, Shl32(ToBits(sgn), 31))

set_sign(b, s) ==
    LET sgn == IF s THEN 1 ELSE 0
    IN  Or32(And32(b, Not32(SIGN_MASK)), Shl32(ToBits(sgn), 31))

exponent(b) ==
    LET exp_msb == exponent_msb(b)
        exp_cont == exponent_cont(b)
        encoded_exp == Shl8(exp_msb, 6) + exp_cont    \* at most 192 + 63
        exp == encoded_exp - EXPONENT_BIAS
    IN  AsI8(exp)

\* The biased exponent set_exponent works on.
biased(exp) == AsU8(exp + EXPONENT_BIAS)

\* set_exponent with the upper check off by one (>= for >).
set_exponent_ge(b, exp) ==
    IF exp >= EXPONENT_MAX THEN Err("ExponentTooLarge", b)
    ELSE IF exp < EXPONENT_MIN THEN Err("ExponentTooSmall", b)
    ELSE LET e == biased(exp)
             exp_msb == Shr8(e, 6)
             coeff_msd == coeffecient_msd(b)
             combination == encode_combination_field(exp_msb, coeff_msd)
             b1 == set_combination_field(b, combination)
             exp_cont == And8(e, 111)
         IN  Ok(set_exponent_cont(b1, exp_cont))

set_exponent(b, exp) ==
    IF exp > EXPONENT_MAX THEN Err("ExponentTooLarge", b)
    ELSE IF exp < EXPONENT_MIN THEN Err("ExponentTooSmall", b)
    ELSE LET e == biased(exp)
             exp_msb == Shr8(e, 6)
             coeff_msd == coeffecient_msd(b)
             combination == encode_combination_field(exp_msb, coeff_msd)
             b1 == set_combination_field(b, combination)
             exp_cont == And8(e, 111)        \* 0x6f
         IN  Ok(set_exponent_cont(b1, exp_cont))

coeffecient(b) ==
    LET coeff_msd == coeffecient_msd(b)
        coeff_cont == coeffecient_cont(b)
    IN  IF coeff_msd > 0
        THEN digits_from_dpd(coeff_msd * Pow2(20) + coeff_cont, 3)
        ELSE IF coeff_cont = 0 THEN 0
        ELSE IF coeff_cont = 1047552        \* 0x000f_fc00
        THEN digits_from_dpd(coeff_cont, 2)
        ELSE digits_from_dpd(coeff_cont, 1)

set_coeffecient(b, coeff) ==
    IF coeff > COEFFECIENT_MAX THEN Err("CoeffecientTooLarge", b)
    ELSE Ok(b)

\* Result::unwrap inside a constructor: the value, or a panic.
unwrap(r) == IF r.res = "Ok" THEN r ELSE [res |-> "Panic", bits |-> r.bits]

from_u8(num) == unwrap(set_coeffecient(new, num))

from_u16(num) == unwrap(set_coeffecient(new, num))

from_u32(num) == unwrap(set_coeffecient(new, num))

from_u8_checked(num) ==
    LET r == from_u8(num)
    IN  IF r.res = "Ok" THEN [res |-> "Some", bits |-> r.bits] ELSE r

---------------------------------------------------------------------------
(* decimal.rs: the provided methods of the trait.                          *)

is_sign_positive(b) == ~sign(b)

is_sign_negative(b) == ~is_sign_positive(b)

set_sign_positive(b) == set_sign(b, FALSE)

set_sign_negative(b) == set_sign(b, TRUE)

---------------------------------------------------------------------------
(* Inputs.                                                                 *)

I8 == -128..127

\* Edges of i8, of the accepted range, and of the bit fields of the biased
\* exponent (bit 4, bit 6, bit 7, both top bits).
ExpEdges ==
    {-128, 127, EXPONENT_MIN, EXPONENT_MAX, 0}
        \cup {k - EXPONENT_BIAS : k \in {16, 64, 128, 192}}

ExpInputs == {e \in I8 : \E k \in ExpEdges : e - k <= Near /\ k - e <= Near}

Near0(hi) == {n \in 0..hi : n <= Near \/ hi - n <= Near}

U8Inputs == Near0(255) \cup {200}

U16Inputs == Near0(65535)

CoeffInputs ==
    {0, 5, 999}
        \cup {c \in (COEFFECIENT_MAX - Near)..(COEFFECIENT_MAX + Near) : TRUE}

\* 2147483647 is the largest u32 TLC can hold.
U32Inputs == CoeffInputs \cup {2147483647}

\* Bit patterns a caller can build through the public field.
Patterns ==
    { {},                                       \* 0x0000_0000
      0..31,                                    \* 0xffff_ffff
      {31, 29, 25, 22, 21, 9, 8, 7, 6, 4},      \* 0xA260_03D0
      {30, 29, 28, 27} \cup (10..19) }          \* 0x780f_fc00

---------------------------------------------------------------------------
(* The state machine: one value, and the calls made on it.                 *)

Init ==
    /\ bits = new
    /\ prev = new
    /\ op = "new"
    /\ arg = "none"
    /\ res = "Ok"

InitBits ==
    /\ bits \in Patterns
    /\ prev = bits
    /\ op = "bits"
    /\ arg = "none"
    /\ res = "Ok"

\* A panic unwinds the caller: nothing runs after it.
Running == res # "Panic"

\* A method call on the value: prev keeps the bits it found.  A constructor
\* replaces the value by a fresh one (prev is then the fresh ZERO value it
\* started from); when it panics no value is produced and bits is left alone.

New ==
    LET r == Ok(new)
    IN  /\ Running
        /\ prev' = new
        /\ bits' = IF r.res = "Panic" THEN bits ELSE r.bits
        /\ op' = "new"
        /\ arg' = "none"
        /\ res' = r.res

SetSign ==
    \E s \in BOOLEAN :
    LET r == Ok(set_sign(bits, s))
    IN  /\ Running
        /\ prev' = bits
        /\ bits' = r.bits
        /\ op' = "set_sign"
        /\ arg' = s
        /\ res' = r.res

SetSignPositive ==
    LET r == Ok(set_sign_positive(bits))
    IN  /\ Running
        /\ prev' = bits
        /\ bits' = r.bits
        /\ op' = "set_sign_positive"
        /\ arg' = "none"
        /\ res' = r.res

SetSignNegative ==
    LET r == Ok(set_sign_negative(bits))
    IN  /\ Running
        /\ prev' = bits
        /\ bits' = r.bits
        /\ op' = "set_sign_negative"
        /\ arg' = "none"
        /\ res' = r.res

SetExponent ==
    \E e \in ExpInputs :
    LET r == set_exponent(bits, e)
    IN  /\ Running
        /\ prev' = bits
        /\ bits' = r.bits
        /\ op' = "set_exponent"
        /\ arg' = e
        /\ res' = r.res

SetCoeffecient ==
    \E c \in U32Inputs :
    LET r == set_coeffecient(bits, c)
    IN  /\ Running
        /\ prev' = bits
        /\ bits' = r.bits
        /\ op' = "set_coeffecient"
        /\ arg' = c
        /\ res' = r.res

FromU8 ==
    \E n \in U8Inputs :
    LET r == from_u8(n)
    IN  /\ Running
        /\ prev' = new
        /\ bits' = IF r.res = "Panic" THEN bits ELSE r.bits
        /\ op' = "from_u8"
        /\ arg' = n
        /\ res' = r.res

FromU16 ==
    \E n \in U16Inputs :
    LET r == from_u16(n)
    IN  /\ Running
        /\ prev' = new
        /\ bits' = IF r.res = "Panic" THEN bits ELSE r.bits
        /\ op' = "from_u16"
        /\ arg' = n
        /\ res' = r.res

FromU32 ==
    \E n \in U32Inputs :
    LET r == from_u32(n)
    IN  /\ Running
        /\ prev' = new
        /\ bits' = IF r.res = "Panic" THEN bits ELSE r.bits
        /\ op' = "from_u32"
        /\ arg' = n
        /\ res' = r.res

FromU8Checked ==
    \E n \in U8Inputs :
    LET r == from_u8_checked(n)
    IN  /\ Running
        /\ prev' = new
        /\ bits' = IF r.res = "Panic" THEN bits ELSE r.bits
        /\ op' = "from_u8_checked"
        /\ arg' = n
        /\ res' = r.res

Next ==
    \/ New
    \/ SetSign
    \/ SetSignPositive
    \/ SetSignNegative
    \/ SetExponent
    \/ SetCoeffecient
    \/ FromU8
    \/ FromU16
    \/ FromU32
    \/ FromU8Checked

Spec == Init /\ [][Next]_vars

SpecBits == InitBits /\ [][Next]_vars

---------------------------------------------------------------------------
(* What a caller reads back.                                               *)

\* The biased exponent as stored: 2 bits from the combination field, then
\* the 6-bit continuation.
stored_exponent(b) == exponent_msb(b) * 64 + exponent_cont(b)

\* Bits 0..30 of the word.
low31(b) == b \ {31}

Constructors == {"new", "from_u8", "from_u16", "from_u32", "from_u8_checked"}

Errors == {"ExponentTooLarge", "ExponentTooSmall", "CoeffecientTooLarge"}

---------------------------------------------------------------------------
(* C1.  Exponent round-trip: on a value reached from new() by the setters, *)
(* for every e in [-95, 96], set_exponent(e) returns Ok and exponent()     *)
(* then returns e.                                                         *)
C1_ExponentRoundTrip ==
    (op = "set_exponent" /\ arg >= -95 /\ arg <= 96)
        => (res = "Ok" /\ exponent(bits) = arg)

(* C2.  Coefficient round-trip: for every c in [0, 9_999_999],             *)
(* set_coeffecient(c) returns Ok, coeffecient() then returns c, and        *)
(* exponent() is what it was before the call.                              *)
C2_CoeffecientRoundTrip ==
    (op = "set_coeffecient" /\ arg >= 0 /\ arg <= 9999999)
        => /\ res = "Ok"
           /\ coeffecient(bits) = arg
           /\ exponent(bits) = exponent(prev)

(* C3.  A successful set_exponent leaves the sign bit, the coefficient's   *)
(* most significant digit (decoded through COMB_DIG_LOOKUP) and the 20-bit *)
(* coefficient continuation as they were, so sign() and coeffecient()      *)
(* read back unchanged.                                                    *)
C3_SetExponentFrame ==
    (op = "set_exponent" /\ res = "Ok")
        => /\ sign(bits) = sign(prev)
           /\ coeffecient_msd(bits) = coeffecient_msd(prev)
           /\ coeffecient_cont(bits) = coeffecient_cont(prev)
           /\ coeffecient(bits) = coeffecient(prev)

(* C4.  Range rejection: set_exponent(e) returns ExponentTooLarge exactly  *)
(* when e > 96, ExponentTooSmall exactly when e < -95, and Ok otherwise;   *)
(* set_coeffecient(c) returns CoeffecientTooLarge exactly when             *)
(* c > 9_999_999 and Ok otherwise; a setter that returns an error leaves   *)
(* the 32 bits as they were.                                               *)
C4_RangeRejection ==
    /\ op = "set_exponent"
        => /\ (res = "ExponentTooLarge") <=> (arg > 96)
           /\ (res = "ExponentTooSmall") <=> (arg < -95)
           /\ (res = "Ok") <=> (arg >= -95 /\ arg <= 96)
    /\ op = "set_coeffecient"
        => /\ (res = "CoeffecientTooLarge") <=> (arg > 9999999)
           /\ (res = "Ok") <=> (arg <= 9999999)
    /\ (op \in {"set_exponent", "set_coeffecient"} /\ res \in Errors)
        => bits = prev

\* set_exponent(-96) has been refused with ExponentTooSmall on a negative
\* word with a non-zero coefficient continuation.
C4_Witness ==
    /\ op = "set_exponent"
    /\ arg = -96
    /\ res = "ExponentTooSmall"
    /\ coeffecient_cont(bits) # 0
    /\ sign(bits)

(* C5.  Sign independence: on any 32-bit pattern, after set_sign(s) the    *)
(* accessor sign() is s, is_sign_negative() is s, is_sign_positive() is    *)
(* not s, and bits 0..30 are unchanged, so exponent() and coeffecient()    *)
(* read back as before; the same after set_sign_positive and               *)
(* set_sign_negative, in any sequence.                                     *)
C5_SignIndependence ==
    LET s == IF op = "set_sign" THEN arg ELSE op = "set_sign_negative"
    IN  op \in {"set_sign", "set_sign_positive", "set_sign_negative"}
            => /\ sign(bits) = s
               /\ is_sign_negative(bits) = s
               /\ is_sign_positive(bits) = ~s
               /\ low31(bits) = low31(prev)
               /\ exponent(bits) = exponent(prev)
               /\ coeffecient(bits) = coeffecient(prev)

\* set_sign has flipped the sign of a word with a non-zero coefficient
\* continuation and a non-zero exponent continuation.
C5_Witness ==
    /\ op = "set_sign"
    /\ arg = FALSE
    /\ sign(prev)
    /\ ~sign(bits)
    /\ coeffecient_cont(bits) # 0
    /\ exponent_cont(bits) # 0

(* C6.  Exponent range: in every state reached from new() by set_sign,     *)
(* set_exponent and set_coeffecient, the stored biased exponent lies in    *)
(* [0, 191] and exponent() lies in [-95, 96].                              *)
C6_ExponentRange ==
    /\ stored_exponent(bits) >= 0
    /\ stored_exponent(bits) <= 191
    /\ exponent(bits) >= -95
    /\ exponent(bits) <= 96

(* C7.  Canonical zero: new() is the pattern 0x6000_0000, and it decodes   *)
(* as 0E1: sign() false, exponent() 1, most significant coefficient digit  *)
(* 0, coeffecient() 0.                                                     *)
C7_CanonicalZero ==
    op = "new"
        => /\ bits = {29, 30}
           /\ ~sign(bits)
           /\ exponent(bits) = 1
           /\ coeffecient_msd(bits) = 0
           /\ coeffecient(bits) = 0

(* C8.  No constructor panics: from_u8, from_u16 and from_u32 return a     *)
(* value for every argument, from_u32 also above 9_999_999.                *)
C8_NoConstructorPanic ==
    op \in Constructors => res # "Panic"

(* C9.  Narrow conversion: from_u8(n) and from_u16(n) give a positive      *)
(* decimal whose coeffecient() is n; from_u8_checked(n) gives Some of a    *)
(* decimal with coefficient n.                                             *)
C9_NarrowConversion ==
    /\ op \in {"from_u8", "from_u16"}
        => (res = "Ok" /\ coeffecient(bits) = arg /\ ~sign(bits))
    /\ op = "from_u8_checked"
        => (res = "Some" /\ coeffecient(bits) = arg)

(* C10.  Combination field: for the exponent MSB m that set_exponent       *)
(* computes from an accepted e and the coefficient digit d it finds,       *)
(* c = encode_combination_field(m, d) is a 5-bit value with                *)
(* COMB_EXP_LOOKUP[c] = m and COMB_DIG_LOOKUP[c] = d, and c is neither of  *)
(* the rows 30 and 31.                                                     *)
C10_CombinationAgreement ==
    (op = "set_exponent" /\ res = "Ok")
        => LET m == Shr8(biased(arg), 6)
               d == coeffecient_msd(prev)
               c == encode_combination_field(m, d)
           IN  /\ c \in 0..31
               /\ COMB_EXP_LOOKUP[c + 1] = m
               /\ COMB_DIG_LOOKUP[c + 1] = d
               /\ c \notin {30, 31}

===========================================================================
